---- MODULE Spec2Model ----
(***************************************************************************)
(* A model of tomoyo/__init__.py: the registration tree (Service, scope,   *)
(* resource), its flattening into the route table (App.resource_path_map), *)
(* and request dispatch (App.__call__) with its memoized caches.           *)
(*                                                                         *)
(* Strings are sequences of one-character strings, so that concatenation,  *)
(* prefix matching, len(), split(), capitalize() and join() are computed.  *)
(* Path patterns are literal strings: re.match(p, path) is "p is a prefix  *)
(* of path".                                                               *)
(***************************************************************************)
EXTENDS Integers, Sequences, FiniteSets, TLC

\* Number of entries (resources and scopes) that may be constructed.
MaxEntries == 3
\* Number of concurrent dispatch calls in SpecConc.
MaxThreads == 2
\* Number of entries that may be constructed in SpecConc.
MaxConcEntries == 2

VARIABLES
    objs,          \* the entries constructed so far; an entry's id is its index
    resource_map,  \* Service.resource_map of the App (id 0) and of every scope
    rpm,           \* App._resource_path_map (the cached route table)
    nf,            \* App._not_found_response
    mna,           \* App._method_not_allowed_response
    computed,      \* how many times each cached value was computed and stored
    last,          \* the last operation and what it did
    nfSeen,        \* the Response objects handed out for 404 so far
    threads        \* the dispatch calls in flight (SpecConc only)

vars == <<objs, resource_map, rpm, nf, mna, computed, last, nfSeen, threads>>

----------------------------------------------------------------------------
(* Strings *)

Digit(d) == CASE d = 0 -> "0" [] d = 1 -> "1" [] d = 2 -> "2" [] d = 3 -> "3"
              [] d = 4 -> "4" [] d = 5 -> "5" [] d = 6 -> "6" [] d = 7 -> "7"
              [] d = 8 -> "8" [] d = 9 -> "9"

RECURSIVE str(_)
\* str(n) of a non-negative int
str(n) == IF n < 10 THEN <<Digit(n)>> ELSE str(n \div 10) \o <<Digit(n % 10)>>

upper(c) == CASE c = "n" -> "N" [] c = "o" -> "O" [] c = "t" -> "T"
              [] c = "f" -> "F" [] c = "u" -> "U" [] c = "d" -> "D"
              [] c = "m" -> "M" [] c = "e" -> "E" [] c = "h" -> "H"
              [] c = "a" -> "A" [] c = "l" -> "L" [] c = "w" -> "W"
              [] c = "k" -> "K" [] c = "c" -> "C" [] c = "y" -> "Y"
              [] c = "p" -> "P" [] c = "r" -> "R" [] c = "g" -> "G"
              [] OTHER -> c

lower(c) == CASE c = "N" -> "n" [] c = "O" -> "o" [] c = "T" -> "t"
              [] c = "F" -> "f" [] c = "U" -> "u" [] c = "D" -> "d"
              [] c = "M" -> "m" [] c = "E" -> "e" [] c = "H" -> "h"
              [] c = "A" -> "a" [] c = "L" -> "l" [] c = "W" -> "w"
              [] c = "K" -> "k" [] c = "C" -> "c" [] c = "Y" -> "y"
              [] c = "P" -> "p" [] c = "R" -> "r" [] c = "G" -> "g"
              [] OTHER -> c

\* s.capitalize(): first character upper-cased, the rest lower-cased
capitalize(s) ==
    [i \in 1..Len(s) |-> IF i = 1 THEN upper(s[i]) ELSE lower(s[i])]

RECURSIVE split(_, _)
\* s.split(sep) for a one-character separator
split(s, sep) ==
    IF \E i \in 1..Len(s) : s[i] = sep
    THEN LET i == CHOOSE i \in 1..Len(s) :
                      s[i] = sep /\ \A j \in 1..(i - 1) : s[j] # sep
         IN  <<SubSeq(s, 1, i - 1)>> \o split(SubSeq(s, i + 1, Len(s)), sep)
    ELSE <<s>>

RECURSIVE join(_, _)
\* sep.join(parts)
join(sep, parts) ==
    IF parts = <<>> THEN <<>>
    ELSE IF Len(parts) = 1 THEN parts[1]
    ELSE parts[1] \o sep \o join(sep, Tail(parts))

\* re.match(p, path) for a literal pattern p: p matches at the start of path
re_match(p, path) == Len(p) <= Len(path) /\ SubSeq(path, 1, Len(p)) = p

----------------------------------------------------------------------------
(* Values *)

HttpMethodNames == {"GET", "POST", "PUT", "DELETE"}

\* http.HTTPStatus members: value and name
OK == [value |-> 200, name |-> <<"O", "K">>]
NOT_FOUND == [value |-> 404, name |-> <<"N", "O", "T", "_", "F", "O", "U", "N", "D">>]
METHOD_NOT_ALLOWED ==
    [value |-> 405,
     name |-> <<"M", "E", "T", "H", "O", "D", "_", "N", "O", "T", "_",
                "A", "L", "L", "O", "W", "E", "D">>]
NoStatus == [value |-> 0, name |-> <<>>]

\* f"{status.value} {formatted}"
http_status_code_message(status) ==
    str(status.value) \o <<" ">>
        \o join(<<" ">>, [i \in 1..Len(split(status.name, "_")) |->
                              capitalize(split(status.name, "_")[i])])

\* HttpHeader(**kwargs): setattr(self, k, v) for every keyword; the dict
\* itself (what items() iterates) is never written.
HttpHeader(kwargs) == [attrs |-> kwargs, items |-> <<>>]

NoHeaders == [attrs |-> <<>>, items |-> <<>>]

\* HttpHeader.as_key_value_pairs
as_key_value_pairs(h) ==
    [i \in 1..Len(h.items) |->
        <<join(<<"-">>, [j \in 1..Len(split(h.items[i][1], "_")) |->
                            capitalize(split(h.items[i][1], "_")[j])]),
          h.items[i][2]>>]

content_type == <<"c", "o", "n", "t", "e", "n", "t", "_", "t", "y", "p", "e">>
content_length ==
    <<"c", "o", "n", "t", "e", "n", "t", "_", "l", "e", "n", "g", "t", "h">>
content_rength ==
    <<"c", "o", "n", "t", "e", "n", "t", "_", "r", "e", "n", "g", "t", "h">>
text_plain == <<"text/plain">>
application_json == <<"application/json">>

\* Response(headers, status, body); oid is the object's identity
\* (0: built for one request, n > 0: the n-th template built)
Response(oid, headers, status, body) ==
    [set |-> TRUE, oid |-> oid, headers |-> headers, status |-> status,
     body |-> body]

NoResponse ==
    [set |-> FALSE, oid |-> 0, headers |-> NoHeaders, status |-> NoStatus,
     body |-> <<>>]

RECURSIVE json_dumps_items(_)
json_dumps_items(d) ==
    IF d = <<>> THEN <<>>
    ELSE <<"\"">> \o d[1][1] \o <<"\"", ":", " ">> \o str(d[1][2])
         \o (IF Len(d) > 1 THEN <<",", " ">> ELSE <<>>)
         \o json_dumps_items(Tail(d))

\* json.dumps of a mapping from strings to non-negative ints
json_dumps(d) == <<"{">> \o json_dumps_items(d) \o <<"}">>

\* What a handler may return: a string, or a mapping
Returns ==
    { [kind |-> "str", s |-> <<"h", "e", "l", "l", "o">>, d |-> <<>>],
      [kind |-> "dict", s |-> <<>>, d |-> << <<(<<"a">>), 1>> >>] }

\* Local paths of entries, request paths and request method tokens
LocalPaths == {<<>>, <<"a">>}
ReqPaths == {<<"a">>, <<"b">>}
ReqMethods == HttpMethodNames

----------------------------------------------------------------------------
(* Registration: Service, scope, resource *)

\* resource(path).<method>(handler), or scope(path)
Entry(kind, path, method) == [kind |-> kind, path |-> path, method |-> method]

\* path in self.resource_map
HasKey(entries, path) == \E i \in 1..Len(entries) : entries[i][1] = path

\* d[key] = value on an insertion-ordered dict: a new key goes last, an
\* existing key keeps its place and takes the new value
DictPut(d, key, value) ==
    IF HasKey(d, key)
    THEN [i \in 1..Len(d) |-> IF d[i][1] = key THEN <<key, value>> ELSE d[i]]
    ELSE Append(d, <<key, value>>)

\* d[key]
DictGet(d, key) == d[CHOOSE i \in 1..Len(d) : d[i][1] = key][2]

\* Service.service without the membership test: the entry replaces the one
\* already under the path
service_overwrite(entries, path, id) ==
    [exc |-> "", entries |-> DictPut(entries, path, id)]

\* Service.service(resource) on the entries of one Service: the
\* ReservedPathError, or the entries with the new one added
service(entries, path, id) ==
    IF HasKey(entries, path)
    THEN [exc |-> "ReservedPathError", entries |-> entries]
    ELSE [exc |-> "", entries |-> DictPut(entries, path, id)]

\* is_allowed_method that only tests that a method is bound
is_allowed_method_bound(r, method) == objs[r].method # ""

\* resource.is_allowed_method
is_allowed_method(r, method) == objs[r].method = method

----------------------------------------------------------------------------
(* Flattening: App.resource_path_map *)

RECURSIVE loop(_, _, _, _)
\* loop(path, value, tail, acc) of resource_path_map. The result is acc, or
\* the ValueError of unpacking the items of a scope that has none.
loop(path, value, tail, acc) ==
    LET here ==
            IF objs[value].kind = "scope"
            THEN LET items == resource_map[value]
                 IN  IF items = <<>>
                     THEN [exc |-> "ValueError", acc |-> acc]
                     ELSE loop(path \o items[1][1], items[1][2], Tail(items), acc)
            ELSE [exc |-> "", acc |-> DictPut(acc, path, value)]
    IN  IF here.exc # "" THEN here
        ELSE IF tail = <<>> THEN here
        ELSE loop(tail[1][1], tail[1][2], Tail(tail), here.acc)

\* Flattening that gives an App without entries an empty table
flatten_empty_table ==
    LET items == resource_map[0]
    IN  IF items = <<>>
        THEN [exc |-> "", acc |-> <<>>]
        ELSE loop(items[1][1], items[1][2], Tail(items), <<>>)

\* The body of resource_path_map under "if not hasattr": unpack the App's
\* items and run loop
flatten ==
    LET items == resource_map[0]
    IN  IF items = <<>>
        THEN [exc |-> "ValueError", acc |-> <<>>]
        ELSE loop(items[1][1], items[1][2], Tail(items), <<>>)

NoTable == [set |-> FALSE, oid |-> 0, table |-> <<>>]

\* resource_path_map without the hasattr test: the table is built on
\* every access
resource_path_map_uncached(cache, n) ==
    LET f == flatten
    IN  IF f.exc # ""
        THEN [exc |-> f.exc, cache |-> cache, ran |-> TRUE]
        ELSE [exc |-> "",
              cache |-> [set |-> TRUE, oid |-> n + 1, table |-> f.acc],
              ran |-> TRUE]

\* App.resource_path_map on the cache `cache`; n tables were stored before.
\* The result: the exception if any, the cache afterwards, and whether the
\* flattening ran.
resource_path_map(cache, n) ==
    IF cache.set
    THEN [exc |-> "", cache |-> cache, ran |-> FALSE]
    ELSE LET f == flatten
         IN  IF f.exc # ""
             THEN [exc |-> f.exc, cache |-> cache, ran |-> TRUE]
             ELSE [exc |-> "",
                   cache |-> [set |-> TRUE, oid |-> n + 1, table |-> f.acc],
                   ran |-> TRUE]

\* memoize without the hasattr test: the method runs on every access
memoize_uncached(cache, fresh) == fresh

\* memoize: the cached value if the attribute exists, else the value of
\* the method, stored
memoize(cache, fresh) == IF cache.set THEN cache ELSE fresh

----------------------------------------------------------------------------
(* Dispatch: App.__call__ *)

\* getattr(HttpMethod, environ["REQUEST_METHOD"])
parse_method(tok) == IF tok \in HttpMethodNames THEN "" ELSE "AttributeError"

\* App._build_request_body: the query string for GET, the stream for POST,
\* _abort(InvalidHttpMethod, method) for every other method
build_request_body(method) ==
    IF method \in {"GET", "POST"} THEN "" ELSE "InvalidHttpMethod"

\* App._find_matched_path: the first key of the table that matches
find_matched_path(table, path) ==
    LET filterd == SelectSeq(table, LAMBDA x : re_match(x[1], path))
    IN  IF filterd # <<>>
        THEN [found |-> TRUE, name |-> filterd[1][1]]
        ELSE [found |-> FALSE, name |-> <<>>]

\* App._build_template_response
build_template_response(oid, status) ==
    LET body == http_status_code_message(status)
    IN  Response(oid,
                 HttpHeader(<< <<content_type, text_plain>>,
                               <<content_rength, str(Len(body))>> >>),
                 status, body)

\* App._build_ok_response, given what the handler returned
build_ok_response(ret) ==
    LET response == IF ret.kind = "dict" THEN json_dumps(ret.d) ELSE ret.s
        ctype == IF ret.kind = "dict" THEN application_json ELSE text_plain
    IN  Response(0,
                 HttpHeader(<< <<content_type, ctype>>,
                               <<content_length, str(Len(response))>> >>),
                 OK, response)

\* What one operation did: a registration (op "service") or a dispatch
\* (op "call"). exc is the exception that left it, "" if none; sr_called,
\* status and headers are the call of start_response; calls lists the
\* Resources whose handler was invoked and returned what that handler gave
\* back ("str" or "dict"); hit tells that the response is a template that
\* memoize found stored.
Outcome(op, svc, kind, path, method, exc, flattened, response, calls, returned, hit) ==
    [op |-> op, svc |-> svc, kind |-> kind, path |-> path, method |-> method,
     exc |-> exc, flattened |-> flattened, sr_called |-> response.set,
     status |-> response.status, headers |-> response.headers,
     body |-> response.body, oid |-> response.oid, calls |-> calls,
     returned |-> returned, hit |-> hit]

\* App.__call__(environ, start_response) run from start to end for the
\* request (path, tok): the outcomes it can have, one for each value the
\* handler may return if it is invoked
dispatch(path, tok) ==
    LET raise(exc, cache, ran) ==
            [rpm |-> cache, nf |-> nf, mna |-> mna,
             last |-> Outcome("call", 0, "", path, tok, exc, ran, NoResponse, <<>>, "", FALSE)]
        respond(cache, ran, nf1, mna1, response, calls, returned, hit) ==
            [rpm |-> cache, nf |-> nf1, mna |-> mna1,
             last |-> Outcome("call", 0, "", path, tok, "", ran, response, calls,
                              returned, hit)]
    IN
    IF parse_method(tok) # "" THEN {raise(parse_method(tok), rpm, FALSE)}
    ELSE IF build_request_body(tok) # ""
    THEN {raise(build_request_body(tok), rpm, FALSE)}
    ELSE
    LET a == resource_path_map(rpm, computed.rpm)
    IN  IF a.exc # "" THEN {raise(a.exc, a.cache, a.ran)}
        ELSE
        LET matched_path == find_matched_path(a.cache.table, path)
        IN  IF ~matched_path.found
            THEN LET r == memoize(nf, build_template_response(computed.nf + 1, NOT_FOUND))
                 IN  {respond(a.cache, a.ran, r, mna, r, <<>>, "", r.oid <= computed.nf)}
            ELSE
            LET resource == DictGet(a.cache.table, matched_path.name)
            IN  IF ~is_allowed_method(resource, tok)
                THEN LET r == memoize(mna, build_template_response(
                                       computed.mna + 1, METHOD_NOT_ALLOWED))
                     IN  {respond(a.cache, a.ran, nf, r, r, <<>>, "", r.oid <= computed.mna)}
                ELSE {respond(a.cache, a.ran, nf, mna, build_ok_response(ret),
                              <<resource>>, ret.kind, FALSE) : ret \in Returns}

----------------------------------------------------------------------------
(* The sequential specification: registrations and dispatches, one at a time *)

\* A dispatch call that has not begun. pc is the call's position in
\* __call__; tbl is the route table object it got, which the template it
\* is after ("nf" or "mna"), resp the Response it will hand over.
Idle ==
    [pc |-> "idle", path |-> <<>>, tok |-> "", tbl |-> NoTable, which |-> "",
     resp |-> NoResponse, calls |-> <<>>, exc |-> ""]

Init ==
    /\ objs = <<>>
    /\ resource_map = (0 :> <<>>)
    /\ rpm = NoTable
    /\ nf = NoResponse
    /\ mna = NoResponse
    /\ computed = [rpm |-> 0, nf |-> 0, mna |-> 0]
    /\ last = Outcome("init", 0, "", <<>>, "", "", FALSE, NoResponse, <<>>, "", FALSE)
    /\ nfSeen = {}
    /\ threads = <<>>

\* s.service(e) for a newly constructed entry e: a resource bound to a
\* handler with `method`, or a scope
RegisterStep(s, kind, path, method) ==
    LET id == Len(objs) + 1
        r == service(resource_map[s], path, id)
    IN  /\ last' = Outcome("service", s, kind, path, method, r.exc, FALSE,
                           NoResponse, <<>>, "", FALSE)
        /\ IF r.exc # ""
           THEN UNCHANGED <<objs, resource_map>>
           ELSE /\ objs' = Append(objs, Entry(kind, path, method))
                /\ resource_map' =
                      IF kind = "scope"
                      THEN [resource_map EXCEPT ![s] = r.entries] @@ (id :> <<>>)
                      ELSE [resource_map EXCEPT ![s] = r.entries]
        /\ UNCHANGED <<rpm, nf, mna, computed, nfSeen, threads>>

Register(s, kind, path, method) ==
    /\ Len(objs) < MaxEntries
    /\ RegisterStep(s, kind, path, method)

Call(path, tok) ==
    \E d \in dispatch(path, tok) :
        /\ rpm' = d.rpm
        /\ nf' = d.nf
        /\ mna' = d.mna
        /\ computed' = [rpm |-> IF d.last.flattened /\ d.rpm.set
                                   THEN computed.rpm + 1 ELSE computed.rpm,
                        nf |-> IF d.nf.oid > computed.nf
                                  THEN computed.nf + 1 ELSE computed.nf,
                        mna |-> IF d.mna.oid > computed.mna
                                   THEN computed.mna + 1 ELSE computed.mna]
        /\ last' = d.last
        /\ nfSeen' = IF d.last.sr_called /\ d.last.status = NOT_FOUND
                         THEN nfSeen \cup {d.last.oid} ELSE nfSeen
        /\ UNCHANGED <<objs, resource_map, threads>>

Next ==
    \/ \E s \in DOMAIN resource_map, path \in LocalPaths :
          \/ \E method \in HttpMethodNames : Register(s, "resource", path, method)
          \/ Register(s, "scope", path, "")
    \/ \E path \in ReqPaths, tok \in ReqMethods : Call(path, tok)

Spec == Init /\ [][Next]_vars

----------------------------------------------------------------------------
(* The concurrent specification: the transport runs dispatch calls on       *)
(* several threads, one call each, once registration is over. A thread may  *)
(* be preempted between a hasattr test and the assignment or the read that  *)
(* follows it.                                                              *)

Threads == 1..MaxThreads

\* The App as constructed, and the transport's threads, none in a call
InitConc ==
    /\ objs = <<>>
    /\ resource_map = (0 :> <<>>)
    /\ rpm = NoTable
    /\ nf = NoResponse
    /\ mna = NoResponse
    /\ computed = [rpm |-> 0, nf |-> 0, mna |-> 0]
    /\ last = Outcome("init", 0, "", <<>>, "", "", FALSE, NoResponse, <<>>, "", FALSE)
    /\ nfSeen = {}
    /\ threads = [t \in Threads |-> Idle]

AllIdle == \A t \in Threads : threads[t].pc = "idle"

ConcRegister(s, kind, path, method) ==
    /\ AllIdle
    /\ Len(objs) < MaxConcEntries
    /\ RegisterStep(s, kind, path, method)

\* __call__ up to the call of _find_matched_path: the method is parsed and
\* the request body built
Begin(t, path, tok) ==
    /\ threads[t].pc = "idle"
    /\ LET exc == IF parse_method(tok) # "" THEN parse_method(tok)
                  ELSE build_request_body(tok)
       IN  threads' = [threads EXCEPT ![t] =
               [@ EXCEPT !.pc = IF exc # "" THEN "done" ELSE "rpm_test",
                         !.path = path, !.tok = tok, !.exc = exc]]
    /\ UNCHANGED <<objs, resource_map, rpm, nf, mna, computed, last, nfSeen>>

\* resource_path_map: if not hasattr(self, "_resource_path_map")
RpmTest(t) ==
    /\ threads[t].pc = "rpm_test"
    /\ threads' = [threads EXCEPT ![t].pc =
                      IF rpm.set THEN "rpm_get" ELSE "rpm_build"]
    /\ UNCHANGED <<objs, resource_map, rpm, nf, mna, computed, last, nfSeen>>

\* resource_path_map: self._resource_path_map = loop(path, value, tail, {})
RpmBuild(t) ==
    /\ threads[t].pc = "rpm_build"
    /\ LET a == resource_path_map(NoTable, computed.rpm)
       IN  IF a.exc # ""
           THEN /\ threads' = [threads EXCEPT ![t] =
                                 [@ EXCEPT !.pc = "done", !.exc = a.exc]]
                /\ UNCHANGED <<rpm, computed>>
           ELSE /\ rpm' = a.cache
                /\ computed' = [computed EXCEPT !.rpm = @ + 1]
                /\ threads' = [threads EXCEPT ![t].pc = "rpm_get"]
    /\ UNCHANGED <<objs, resource_map, nf, mna, last, nfSeen>>

\* resource_path_map: return self._resource_path_map, then the rest of
\* _find_matched_path on the keys of that table
RpmGet(t) ==
    /\ threads[t].pc = "rpm_get"
    /\ LET matched_path == find_matched_path(rpm.table, threads[t].path)
       IN  threads' = [threads EXCEPT ![t] =
               [@ EXCEPT !.tbl = rpm,
                         !.pc = IF matched_path.found THEN "lookup" ELSE "tpl_test",
                         !.which = IF matched_path.found THEN "" ELSE "nf"]]
    /\ UNCHANGED <<objs, resource_map, rpm, nf, mna, computed, last, nfSeen>>

\* __call__: resource = self.resource_path_map[matched_path["name"]], the
\* method test, and _build_ok_response if the method is allowed
Lookup(t, ret) ==
    /\ threads[t].pc = "lookup"
    /\ LET name == find_matched_path(threads[t].tbl.table, threads[t].path).name
           resource == DictGet(rpm.table, name)
       IN  IF ~is_allowed_method(resource, threads[t].tok)
           THEN threads' = [threads EXCEPT ![t] =
                               [@ EXCEPT !.pc = "tpl_test", !.which = "mna"]]
           ELSE threads' = [threads EXCEPT ![t] =
                               [@ EXCEPT !.pc = "respond",
                                         !.resp = build_ok_response(ret),
                                         !.calls = <<resource>>]]
    /\ UNCHANGED <<objs, resource_map, rpm, nf, mna, computed, last, nfSeen>>

\* memoize: if not hasattr(self, memo_name)
TplTest(t) ==
    /\ threads[t].pc = "tpl_test"
    /\ LET cache == IF threads[t].which = "nf" THEN nf ELSE mna
       IN  threads' = [threads EXCEPT ![t].pc =
                          IF cache.set THEN "tpl_get" ELSE "tpl_build"]
    /\ UNCHANGED <<objs, resource_map, rpm, nf, mna, computed, last, nfSeen>>

\* memoize: setattr(self, memo_name, method(self, *args, **kwargs))
TplBuild(t) ==
    /\ threads[t].pc = "tpl_build"
    /\ IF threads[t].which = "nf"
       THEN /\ nf' = memoize(NoResponse,
                              build_template_response(computed.nf + 1, NOT_FOUND))
            /\ computed' = [computed EXCEPT !.nf = @ + 1]
            /\ UNCHANGED mna
       ELSE /\ mna' = memoize(NoResponse,
                               build_template_response(computed.mna + 1,
                                                       METHOD_NOT_ALLOWED))
            /\ computed' = [computed EXCEPT !.mna = @ + 1]
            /\ UNCHANGED nf
    /\ threads' = [threads EXCEPT ![t].pc = "tpl_get"]
    /\ UNCHANGED <<objs, resource_map, rpm, last, nfSeen>>

\* memoize: return getattr(self, memo_name)
TplGet(t) ==
    /\ threads[t].pc = "tpl_get"
    /\ threads' = [threads EXCEPT ![t] =
           [@ EXCEPT !.pc = "respond",
                     !.resp = IF threads[t].which = "nf" THEN nf ELSE mna]]
    /\ UNCHANGED <<objs, resource_map, rpm, nf, mna, computed, last, nfSeen>>

\* __call__: start_response(response.status, response.headers)
Respond(t) ==
    /\ threads[t].pc = "respond"
    /\ threads' = [threads EXCEPT ![t].pc = "done"]
    /\ nfSeen' = IF threads[t].resp.status = NOT_FOUND
                     THEN nfSeen \cup {threads[t].resp.oid} ELSE nfSeen
    /\ UNCHANGED <<objs, resource_map, rpm, nf, mna, computed, last>>

NextConc ==
    \/ \E s \in DOMAIN resource_map, path \in LocalPaths :
          \/ \E method \in HttpMethodNames :
                ConcRegister(s, "resource", path, method)
          \/ ConcRegister(s, "scope", path, "")
    \/ \E t \in Threads :
          \/ \E path \in ReqPaths, tok \in ReqMethods : Begin(t, path, tok)
          \/ RpmTest(t)
          \/ RpmBuild(t)
          \/ RpmGet(t)
          \/ \E ret \in Returns : Lookup(t, ret)
          \/ TplTest(t)
          \/ TplBuild(t)
          \/ TplGet(t)
          \/ Respond(t)

SpecConc == InitConc /\ [][NextConc]_vars

----------------------------------------------------------------------------
(* The registration tree as the specification describes it *)

Resources == {i \in 1..Len(objs) : objs[i].kind = "resource"}

\* The Service that holds entry i
Parent(i) ==
    CHOOSE s \in DOMAIN resource_map :
        \E k \in 1..Len(resource_map[s]) : resource_map[s][k][2] = i

RECURSIVE FullPath(_)
\* The paths of the enclosing scopes, outermost first, then the entry's own
FullPath(i) ==
    IF Parent(i) = 0 THEN objs[i].path ELSE FullPath(Parent(i)) \o objs[i].path

RECURSIVE Walk(_)
\* The Resources below `entries` in depth-first insertion order
Walk(entries) ==
    IF entries = <<>> THEN <<>>
    ELSE (IF objs[entries[1][2]].kind = "scope"
          THEN Walk(resource_map[entries[1][2]])
          ELSE <<entries[1][2]>>) \o Walk(Tail(entries))

\* The places of the route table whose pattern matches the path
MatchIdx(table, path) == {i \in 1..Len(table) : re_match(table[i][1], path)}

\* The first entry <<pattern, Resource>> of the table that matches the path
FirstMatched(table, path) ==
    table[CHOOSE i \in MatchIdx(table, path) :
              \A j \in MatchIdx(table, path) : i <= j]

\* The last operation was a dispatch that built the route table: the tree
\* is the tree that was flattened
TableJustBuilt == last.op = "call" /\ last.flattened /\ rpm.set

\* Some Service, the App or a scope, has no entries
HasEmptyService == \E s \in DOMAIN resource_map : resource_map[s] = <<>>

Content_Type == <<"C", "o", "n", "t", "e", "n", "t", "-", "T", "y", "p", "e">>
Content_Length ==
    <<"C", "o", "n", "t", "e", "n", "t", "-", "L", "e", "n", "g", "t", "h">>
NotFoundBody ==
    <<"4", "0", "4", " ", "N", "o", "t", " ", "F", "o", "u", "n", "d">>

----------------------------------------------------------------------------
(* Claims *)

\* C1: a request whose path matches a Resource's full pattern, whose method
\* is the Resource's bound method, and before whose full pattern no pattern
\* of the route table matches, invokes that Resource's handler exactly once
\* and is answered with status 200. Stated of the dispatch that builds the
\* route table (which only a GET or a POST reaches).
C1_MatchedRequestInvokesHandler ==
    TableJustBuilt =>
        \A r \in Resources :
            ( /\ objs[r].method = last.method
              /\ re_match(FullPath(r), last.path)
              /\ \A i \in MatchIdx(rpm.table, last.path) :
                     \E j \in 1..i : rpm.table[j][1] = FullPath(r) )
            => (last.calls = <<r>> /\ last.sr_called /\ last.status = OK)

\* C2: after flattening, the route table holds for every Resource the key
\* made of the paths of its enclosing scopes and its own, mapped to that
\* Resource. Stated of the Resources whose full pattern no other Resource
\* shares (a key maps to one Resource only).
C2_FlatteningPrefixesEveryDescendant ==
    TableJustBuilt =>
        \A r \in Resources :
            (\A q \in Resources \ {r} : FullPath(q) # FullPath(r))
            => \E i \in 1..Len(rpm.table) : rpm.table[i] = <<FullPath(r), r>>

\* C3: of the Resources whose full pattern matches the request path, the
\* one that comes first in the depth-first insertion-order walk is the one
\* the request is routed to: its method is checked, its handler invoked.
\* Stated of the trees whose route table has exactly the full patterns as
\* keys.
C3_FirstMatchWins ==
    ( /\ TableJustBuilt
      /\ {rpm.table[i][1] : i \in 1..Len(rpm.table)}
            = {FullPath(r) : r \in Resources} )
    => LET w == Walk(resource_map[0])
           m == {i \in 1..Len(w) : re_match(FullPath(w[i]), last.path)}
       IN  \A i \in m :
               ((\A j \in m : i <= j) /\ (\E j \in m : i < j))
               => IF objs[w[i]].method = last.method
                  THEN last.calls = <<w[i]>> /\ last.status = OK
                  ELSE last.calls = <<>> /\ last.status = METHOD_NOT_ALLOWED

\* C4 as stated: a request whose path is first matched by the pattern of a
\* Resource bound to another method than the request's, whichever of the
\* four it is, is answered with status 405 and no handler is invoked.
C4_WrongMethodIs405 ==
    ( /\ last.op = "call"
      /\ rpm.set
      /\ MatchIdx(rpm.table, last.path) # {}
      /\ objs[FirstMatched(rpm.table, last.path)[2]].method # last.method )
    => (last.sr_called /\ last.status = METHOD_NOT_ALLOWED /\ last.calls = <<>>)

\* C4 as amended: such a request is answered with status 405, no handler
\* invoked, when its method is GET or POST; a PUT or DELETE request leaves
\* dispatch with InvalidHttpMethod, without a response and without a
\* handler invoked.
C4_WrongMethodGetPostIs405 ==
    last.op = "call" =>
        /\ last.method \in {"PUT", "DELETE"}
             => (last.exc = "InvalidHttpMethod" /\ ~last.sr_called
                 /\ last.calls = <<>>)
        /\ ( /\ last.method \in {"GET", "POST"}
             /\ rpm.set
             /\ MatchIdx(rpm.table, last.path) # {}
             /\ objs[FirstMatched(rpm.table, last.path)[2]].method # last.method )
           => (last.sr_called /\ last.status = METHOD_NOT_ALLOWED
               /\ last.calls = <<>>)

\* C4 witness: a POST request first matched by a Resource bound to PUT was
\* answered 405.
C4_Witness ==
    /\ last.op = "call" /\ last.method = "POST" /\ rpm.set
    /\ MatchIdx(rpm.table, last.path) # {}
    /\ objs[FirstMatched(rpm.table, last.path)[2]].method = "PUT"
    /\ last.status = METHOD_NOT_ALLOWED

\* C5: a GET or POST request whose path no pattern of the route table
\* matches is answered with status 404 and the body "404 Not Found", invokes
\* no handler, and every such request gets the same Response object.
C5_NotFoundTemplate ==
    /\ Cardinality(nfSeen) <= 1
    /\ ( /\ last.op = "call"
         /\ last.method \in {"GET", "POST"}
         /\ rpm.set
         /\ MatchIdx(rpm.table, last.path) = {} )
       => /\ last.sr_called
          /\ last.status.value = 404
          /\ last.body = NotFoundBody
          /\ last.calls = <<>>
          /\ nf.set /\ last.oid = nf.oid /\ nfSeen = {last.oid}

\* C5 witness: a POST request that matched nothing got the stored template
\* (a miss after the first miss).
C5_Witness ==
    /\ last.op = "call" /\ last.method = "POST" /\ last.status = NOT_FOUND
    /\ last.hit

\* C6: service(entry) on a Service that holds an entry under the same
\* local path fails with ReservedPathError and leaves the entries of every
\* Service as they were.
C6_DuplicatePathFails ==
    [][ (last'.op = "service" /\ HasKey(resource_map[last'.svc], last'.path))
        => (last'.exc = "ReservedPathError" /\ resource_map' = resource_map
            /\ objs' = objs) ]_vars

\* C6 witness: a scope was refused under a path that a resource holds.
C6_Witness ==
    /\ last.op = "service" /\ last.exc = "ReservedPathError"
    /\ last.kind = "scope"
    /\ objs[DictGet(resource_map[last.svc], last.path)].kind = "resource"

\* C7: the header pairs handed to start_response with status 200 hold
\* Content-Type (application/json for a mapping, text/plain for a string)
\* and Content-Length (the length of the body), under these names.
C7_HeadersHanded ==
    (last.op = "call" /\ last.sr_called /\ last.status = OK)
    => LET pairs == {last.headers.items[i] : i \in 1..Len(last.headers.items)}
       IN  /\ <<Content_Type, IF last.returned = "dict"
                                THEN application_json ELSE text_plain>> \in pairs
           /\ <<Content_Length, str(Len(last.body))>> \in pairs

\* C8: while no route table is cached and some Service has no entries, a
\* GET or POST dispatch ends with the ValueError of the flattening:
\* start_response is not called, no handler runs, no table is cached.
C8_EmptyTreeRaises ==
    [][ ( /\ last'.op = "call"
          /\ last'.method \in {"GET", "POST"}
          /\ ~rpm.set
          /\ HasEmptyService )
        => ( /\ last'.exc = "ValueError"
             /\ ~last'.sr_called
             /\ last'.calls = <<>>
             /\ ~rpm'.set
             /\ computed'.rpm = 0 ) ]_vars

\* C8 witness: a dispatch failed on an App that has entries, one of them a
\* scope without entries.
C8_Witness ==
    /\ last.op = "call" /\ last.exc = "ValueError"
    /\ resource_map[0] # <<>>

C10_CachesComputedOnce ==
    /\ computed.rpm <= 1 /\ computed.nf <= 1 /\ computed.mna <= 1
    /\ Cardinality(nfSeen) <= 1
    /\ \A t, u \in Threads :
          (t # u /\ threads[t].pc = threads[u].pc)
          => /\ threads[t].pc # "rpm_build"
             /\ (threads[t].pc = "tpl_build"
                 => threads[t].which # threads[u].which)
    /\ \A t \in Threads :
          threads[t].pc \in {"lookup", "tpl_test", "tpl_build", "tpl_get",
                              "respond", "done"}
          /\ threads[t].tbl.set => threads[t].tbl.oid = rpm.oid

====
